---- MODULE Spec2Model ----
(***************************************************************************)
(* The Celery signal-to-span adapter, CeleryInstrumentor                   *)
(* (opentelemetry/ext/celery/__init__.py).                                 *)
(*                                                                         *)
(* State: the signals the adapter's handlers are connected to, the spans   *)
(* the tracer has started, the association table (task, task_id,           *)
(* is_publish) -> (span, activation), the current span of each execution   *)
(* context, and the log records of the last handler call.                  *)
(*                                                                         *)
(* Spec     delivers lifecycle events one at a time: every handler runs    *)
(*          to completion before the next event (one worker thread).       *)
(* ConcSpec runs handlers on several threads, one statement at a time,     *)
(*          handlers in flight at the same time having distinct keys.      *)
(***************************************************************************)
EXTENDS Integers, Sequences, FiniteSets, TLC

\* ------------------------------------------------------------------ bounds
\* spans the tracer may start in one behaviour
MaxSpans == 2

\* ------------------------------------------------------------ the universe
None == "None"

\* task objects (celery Task instances registered in the app)
Tasks == {"T1", "T2"}
\* execution identifiers (celery task ids)
TaskIds == {"id1", "id2"}
\* the worker threads of ConcSpec; Spec runs every handler on MainThread
Threads == {"th1", "th2"}
MainThread == "th1"

\* task.name
TaskName(task) == IF task = "T1" THEN "tasks.add" ELSE "tasks.mul"

\* exception classes and their base classes (KeyError derives from LookupError)
Exceptions == {"KeyError", "ValueError"}
Bases(e) == IF e = "KeyError" THEN {"KeyError", "LookupError", "Exception"}
            ELSE {"ValueError", "Exception"}

\* task.throws: T1 declares (LookupError,), T2 has no such attribute
HasThrows(task) == task = "T1"
TaskThrows(task) == IF task = "T1" THEN {"LookupError"} ELSE {}

\* isinstance(exc, classes)
IsInstance(exc, classes) == Bases(exc) \cap classes # {}

\* retry reasons: an exception object
Reasons == {"TimeoutError('timeout')"}

\* str(x) of a retry reason or of an ExceptionInfo
PyStr(x) ==
    CASE x = "TimeoutError('timeout')" -> "timeout"
      [] OTHER -> "ExceptionInfo(" \o x \o ")"

\* the context fields an event payload / task.request may carry
Contexts == {{"hostname"}}

\* the signals of the host library; the adapter uses the first six
AdapterSignals == {"task_prerun", "task_postrun", "before_task_publish",
                   "after_task_publish", "task_failure", "task_retry"}
AllSignals == AdapterSignals \cup {"task_revoked", "task_success"}

\* attribute keys (module constants, lines 68-76)
TASK_TAG_KEY == "celery.action"
TASK_APPLY_ASYNC == "apply_async"
TASK_RUN == "run"
TASK_RETRY_REASON_KEY == "celery.retry.reason"
TASK_NAME_KEY == "celery.task_name"
MESSAGE_ID_ATTRIBUTE_NAME == "messaging.message_id"
AttrKeys == {TASK_TAG_KEY, TASK_RETRY_REASON_KEY, TASK_NAME_KEY,
             MESSAGE_ID_ATTRIBUTE_NAME, "celery.hostname"}

Keys == Tasks \X TaskIds \X BOOLEAN

StatusOK == [code |-> "OK", description |-> None]

VARIABLES
    connected,   \* the signals a handler of the adapter is connected to
    spans,       \* the spans started by the tracer, in start order
    table,       \* Keys -> index into spans, 0: no entry
    current,     \* Threads -> the thread's current span (0: none)
    level,       \* the level the module's logger is configured at
    log,         \* the log records emitted by the last handler call
    pc,          \* ConcSpec: Threads -> the statement the thread is at
    frame        \* ConcSpec: Threads -> the locals of the handler in flight

vars == <<connected, spans, table, current, level, log, pc, frame>>

\* --------------------------------------------------------- the tracing API
\* tracer.start_span(name, kind): a new, open span.  opened_for records the
\* handler's key, and token the context saved by the activation's __enter__.
StartSpan(name, kind, key, token) ==
    [name |-> name, kind |-> kind,
     attributes |-> [k \in AttrKeys |-> None],
     status |-> StatusOK, ended |-> FALSE,
     opened_for |-> key, token |-> token]

\* span.set_attribute(key, value): ignored once the span has ended
SpanSetAttribute(span, key, value) ==
    IF span.ended THEN span ELSE [span EXCEPT !.attributes[key] = value]

\* span.set_status(status): ignored once the span has ended
SpanSetStatus(span, status) ==
    IF span.ended THEN span ELSE [span EXCEPT !.status = status]

\* span.end()
SpanEnd(span) == [span EXCEPT !.ended = TRUE]

\* utils.set_attributes_from_context(span, context): one celery.<field>
\* attribute per field of the context
set_attributes_from_context(span, context) ==
    IF "hostname" \in context
    THEN SpanSetAttribute(span, "celery.hostname", "worker1")
    ELSE span

\* ------------------------------------------------- the association table
\* utils.attach_span(task, task_id, (span, activation), is_publish)
attach_span(tbl, task, task_id, span, is_publish) ==
    [tbl EXCEPT ![<<task, task_id, is_publish>>] = span]

\* utils.detach_span(task, task_id, is_publish)
detach_span(tbl, task, task_id, is_publish) ==
    [tbl EXCEPT ![<<task, task_id, is_publish>>] = 0]

\* utils.retrieve_span(task, task_id, is_publish): 0 stands for (None, None)
retrieve_span(tbl, task, task_id, is_publish) ==
    tbl[<<task, task_id, is_publish>>]

\* ------------------------------------------------------------ the logger
\* logger.debug / logger.warning calls of the handlers (lines 113, 129, 134, 179)
DebugPrerun == [levelname |-> "DEBUG", msg |-> "prerun signal start task_id=%s"]
DebugPostrun == [levelname |-> "DEBUG", msg |-> "postrun signal task_id=%s"]
WarnNoSpan == [levelname |-> "WARNING", msg |-> "no existing span found for task_id=%s"]

\* logging's numeric levels
LevelNo(name) == CASE name = "DEBUG" -> 10 [] name = "WARNING" -> 30 [] OTHER -> 50

\* the records of one handler call: a record below the logger's level is dropped
Emit(records) == log' = {r \in records : LevelNo(r.levelname) >= LevelNo(level)}

\* ----------------------------------------------------------------- Init
NoFrame == [handler |-> None, task |-> None, task_id |-> None, span |-> 0,
            arg |-> None]

\* no span started, an empty table; signals: the signals connected so far,
\* lvl: the level logging is configured at
Constructed(signals, lvl) ==
    /\ connected = signals
    /\ spans = <<>>
    /\ table = [k \in Keys |-> 0]
    /\ current = [t \in Threads |-> 0]
    /\ level = lvl
    /\ log = {}
    /\ pc = [t \in Threads |-> "idle"]
    /\ frame = [t \in Threads |-> NoFrame]

\* a new CeleryInstrumentor, logging at its default level
Init == Constructed({}, "WARNING")

\* ------------------------------------------- _instrument / _uninstrument
\* signals.<name>.connect(handler, weak=False), six times
Instrument ==
    /\ connected' = connected \cup AdapterSignals
    /\ UNCHANGED <<spans, table, current, level, log, pc, frame>>

\* (mutant) the disconnect of task_retry is forgotten
Uninstrument_KeepsRetry ==
    /\ connected' = connected \ (AdapterSignals \ {"task_retry"})
    /\ UNCHANGED <<spans, table, current, level, log, pc, frame>>

\* signals.<name>.disconnect(handler), six times
Uninstrument ==
    /\ connected' = connected \ AdapterSignals
    /\ UNCHANGED <<spans, table, current, level, log, pc, frame>>

\* Signal.send: the handler runs only if it is connected to the signal
Send(sig, handler) ==
    IF sig \in connected THEN handler ELSE UNCHANGED vars

\* ------------------------------------------------ the handlers, atomically
Absent(task, task_id) == task = None \/ task_id = None

\* a handler that returns at once: nothing is logged, nothing changes
ReturnEarly ==
    /\ Emit({})
    /\ UNCHANGED <<connected, spans, table, current, level, pc, frame>>

\* (mutant) only the task is checked: a payload without task_id goes on
_trace_prerun_TaskOnly(task, task_id) ==
    IF task = None THEN ReturnEarly
    ELSE
        /\ Len(spans) < MaxSpans
        /\ Emit({DebugPrerun})
        /\ spans' = Append(spans, StartSpan(TaskName(task), "CONSUMER",
                              <<task, task_id, FALSE>>, current[MainThread]))
        /\ current' = [current EXCEPT ![MainThread] = Len(spans) + 1]
        /\ table' = attach_span(table, task, task_id, Len(spans) + 1, FALSE)
        /\ UNCHANGED <<connected, level, pc, frame>>

_trace_prerun(task, task_id) ==
    IF Absent(task, task_id) THEN ReturnEarly
    ELSE
        /\ Len(spans) < MaxSpans
        /\ Emit({DebugPrerun})
        /\ spans' = Append(spans, StartSpan(TaskName(task), "CONSUMER",
                              <<task, task_id, FALSE>>, current[MainThread]))
        /\ current' = [current EXCEPT ![MainThread] = Len(spans) + 1]
        /\ table' = attach_span(table, task, task_id, Len(spans) + 1, FALSE)
        /\ UNCHANGED <<connected, level, pc, frame>>

\* (mutant) the task name is not recorded on the run span
PostrunAttributes_NoTaskName(span, task, kwargs, request) ==
    set_attributes_from_context(
        set_attributes_from_context(
            SpanSetAttribute(span, TASK_TAG_KEY, TASK_RUN), kwargs),
        request)

\* the attributes _trace_postrun sets before it ends the span
PostrunAttributes(span, task, kwargs, request) ==
    SpanSetAttribute(
        set_attributes_from_context(
            set_attributes_from_context(
                SpanSetAttribute(span, TASK_TAG_KEY, TASK_RUN), kwargs),
            request),
        TASK_NAME_KEY, TaskName(task))

\* activation.__exit__(None, None, None) of use_span(span, end_on_exit=True):
\* the thread's context is reset to the activation's token, the span is ended
ActivationExit(thread, s) ==
    /\ current' = [current EXCEPT ![thread] = spans[s].token]
    /\ spans' = [spans EXCEPT ![s] = SpanEnd(@)]

_trace_postrun(task, task_id, kwargs, request) ==
    IF Absent(task, task_id) THEN ReturnEarly
    ELSE LET s == retrieve_span(table, task, task_id, FALSE) IN
        IF s = 0
        THEN /\ Emit({DebugPostrun, WarnNoSpan})
             /\ UNCHANGED <<connected, spans, table, current, level, pc, frame>>
        ELSE /\ Emit({DebugPostrun})
             /\ current' = [current EXCEPT ![MainThread] = spans[s].token]
             /\ spans' = [spans EXCEPT
                    ![s] = SpanEnd(PostrunAttributes(@, task, kwargs, request))]
             /\ table' = detach_span(table, task, task_id, FALSE)
             /\ UNCHANGED <<connected, level, pc, frame>>

\* the attributes _trace_before_publish sets on the new span
PublishAttributes(span, task, task_id, kwargs) ==
    set_attributes_from_context(
        SpanSetAttribute(
            SpanSetAttribute(
                SpanSetAttribute(span, TASK_TAG_KEY, TASK_APPLY_ASYNC),
                MESSAGE_ID_ATTRIBUTE_NAME, task_id),
            TASK_NAME_KEY, TaskName(task)),
        kwargs)

_trace_before_publish(task, task_id, kwargs) ==
    IF Absent(task, task_id) THEN ReturnEarly
    ELSE
        /\ Len(spans) < MaxSpans
        /\ Emit({})
        /\ spans' = Append(spans,
                      PublishAttributes(
                          StartSpan(TaskName(task), "PRODUCER",
                                    <<task, task_id, TRUE>>, current[MainThread]),
                          task, task_id, kwargs))
        /\ current' = [current EXCEPT ![MainThread] = Len(spans) + 1]
        /\ table' = attach_span(table, task, task_id, Len(spans) + 1, TRUE)
        /\ UNCHANGED <<connected, level, pc, frame>>

\* (mutant) is_publish=True is forgotten: the run entry is looked up and removed
_trace_after_publish_RunKey(task, task_id) ==
    IF Absent(task, task_id) THEN ReturnEarly
    ELSE LET s == retrieve_span(table, task, task_id, FALSE) IN
        IF s = 0
        THEN /\ Emit({WarnNoSpan})
             /\ UNCHANGED <<connected, spans, table, current, level, pc, frame>>
        ELSE /\ Emit({})
             /\ current' = [current EXCEPT ![MainThread] = spans[s].token]
             /\ spans' = [spans EXCEPT ![s] = SpanEnd(@)]
             /\ table' = detach_span(table, task, task_id, FALSE)
             /\ UNCHANGED <<connected, level, pc, frame>>

_trace_after_publish(task, task_id) ==
    IF Absent(task, task_id) THEN ReturnEarly
    ELSE LET s == retrieve_span(table, task, task_id, TRUE) IN
        IF s = 0
        THEN /\ Emit({WarnNoSpan})
             /\ UNCHANGED <<connected, spans, table, current, level, pc, frame>>
        ELSE /\ Emit({})
             /\ current' = [current EXCEPT ![MainThread] = spans[s].token]
             /\ spans' = [spans EXCEPT ![s] = SpanEnd(@)]
             /\ table' = detach_span(table, task, task_id, TRUE)
             /\ UNCHANGED <<connected, level, pc, frame>>

\* (mutant) type(ex.exception) in task.throws: subclasses are not recognised
AllowListed_ExactType(task, einfo) ==
    /\ HasThrows(task)
    /\ einfo \in TaskThrows(task)

\* hasattr(task, "throws") and isinstance(ex.exception, task.throws)
AllowListed(task, einfo) ==
    /\ HasThrows(task)
    /\ IsInstance(einfo, TaskThrows(task))

\* Status(canonical_code=StatusCanonicalCode.UNKNOWN, description=str(ex))
ErrorStatus(einfo) == [code |-> "UNKNOWN", description |-> PyStr(einfo)]

\* (mutant) the failure handler also finishes the span and drops its entry
_trace_failure_Finishing(task, task_id, einfo) ==
    IF Absent(task, task_id) THEN ReturnEarly
    ELSE LET s == retrieve_span(table, task, task_id, FALSE) IN
        IF s = 0 \/ einfo = None THEN ReturnEarly
        ELSE IF AllowListed(task, einfo) THEN ReturnEarly
        ELSE /\ Emit({})
             /\ spans' = [spans EXCEPT
                    ![s] = SpanEnd(SpanSetStatus(@, ErrorStatus(einfo)))]
             /\ current' = [current EXCEPT ![MainThread] = spans[s].token]
             /\ table' = detach_span(table, task, task_id, FALSE)
             /\ UNCHANGED <<connected, level, pc, frame>>

\* (mutant) the failure handler warns when no span is stored, as postrun does
_trace_failure_Warning(task, task_id, einfo) ==
    IF Absent(task, task_id) THEN ReturnEarly
    ELSE LET s == retrieve_span(table, task, task_id, FALSE) IN
        IF s = 0
        THEN /\ Emit({WarnNoSpan})
             /\ UNCHANGED <<connected, spans, table, current, level, pc, frame>>
        ELSE IF einfo = None \/ AllowListed(task, einfo) THEN ReturnEarly
        ELSE /\ Emit({})
             /\ spans' = [spans EXCEPT ![s] = SpanSetStatus(@, ErrorStatus(einfo))]
             /\ UNCHANGED <<connected, table, current, level, pc, frame>>

_trace_failure(task, task_id, einfo) ==
    IF Absent(task, task_id) THEN ReturnEarly
    ELSE LET s == retrieve_span(table, task, task_id, FALSE) IN
        IF s = 0 \/ einfo = None THEN ReturnEarly
        ELSE IF AllowListed(task, einfo) THEN ReturnEarly
        ELSE /\ Emit({})
             /\ spans' = [spans EXCEPT ![s] = SpanSetStatus(@, ErrorStatus(einfo))]
             /\ UNCHANGED <<connected, table, current, level, pc, frame>>

\* (mutant) the retry handler drops the span's entry after annotating it
_trace_retry_Detaching(task, task_id, reason) ==
    IF Absent(task, task_id) \/ reason = None THEN ReturnEarly
    ELSE LET s == retrieve_span(table, task, task_id, FALSE) IN
        IF s = 0 THEN ReturnEarly
        ELSE /\ Emit({})
             /\ spans' = [spans EXCEPT
                    ![s] = SpanSetAttribute(@, TASK_RETRY_REASON_KEY, PyStr(reason))]
             /\ table' = detach_span(table, task, task_id, FALSE)
             /\ UNCHANGED <<connected, current, level, pc, frame>>

_trace_retry(task, task_id, reason) ==
    IF Absent(task, task_id) \/ reason = None THEN ReturnEarly
    ELSE LET s == retrieve_span(table, task, task_id, FALSE) IN
        IF s = 0 THEN ReturnEarly
        ELSE /\ Emit({})
             /\ spans' = [spans EXCEPT
                    ![s] = SpanSetAttribute(@, TASK_RETRY_REASON_KEY, PyStr(reason))]
             /\ UNCHANGED <<connected, table, current, level, pc, frame>>

\* ------------------------------------------------------------ the events
\* Each event is a signal sent by the host with a payload; P is the set of
\* (task, task_id) pairs the payloads are drawn from, None standing for a
\* field the payload lacks.
TaskPrerun(P) ==
    \E p \in P :
        Send("task_prerun", _trace_prerun(p[1], p[2]))

TaskPostrun(P) ==
    \E p \in P, kwargs \in Contexts, request \in Contexts :
        Send("task_postrun", _trace_postrun(p[1], p[2], kwargs, request))

BeforeTaskPublish(P) ==
    \E p \in P, kwargs \in Contexts :
        Send("before_task_publish", _trace_before_publish(p[1], p[2], kwargs))

AfterTaskPublish(P) ==
    \E p \in P :
        Send("after_task_publish", _trace_after_publish(p[1], p[2]))

\* F: the (task, task_id, einfo) triples failure payloads are drawn from
TaskFailure(F) ==
    \E f \in F :
        Send("task_failure", _trace_failure(f[1], f[2], f[3]))

\* R: the (task, task_id, reason) triples retry payloads are drawn from
TaskRetry(R) ==
    \E r \in R :
        Send("task_retry", _trace_retry(r[1], r[2], r[3]))

\* payloads with both identifiers (two executions of T1, one of T2 sharing
\* an id with T1), and the payloads that lack one
Present == {<<"T1", "id1">>, <<"T1", "id2">>, <<"T2", "id1">>}
Lacking == {<<None, "id1">>, <<"T1", None>>}

\* the payloads of P, each with every extra field of X
With(P, X) == {<<p[1], p[2], x>> : p \in P, x \in X}

\* failures: of T1 with an exception of its allow-list (KeyError is a
\* LookupError), with one outside it and without exception info, and of T2
\* (no allow-list)
Failures ==
    With({<<"T1", "id1">>}, Exceptions \cup {None})
        \cup With({<<"T2", "id1">>}, {"KeyError"})

\* retries: of T1 with a reason and without one, and of T2 with a reason
Retries ==
    With({<<"T1", "id1">>}, Reasons \cup {None})
        \cup With({<<"T2", "id1">>}, Reasons)

\* Spec: the adapter is instrumented, then events that carry both
\* identifiers arrive in any order (those that lack one are in DebugSpec)
Next ==
    \/ Instrument
    \/ TaskPrerun(Present)
    \/ TaskPostrun(Present)
    \/ BeforeTaskPublish(Present)
    \/ AfterTaskPublish(Present)
    \/ TaskFailure(Failures)
    \/ TaskRetry(Retries)

Spec == Init /\ [][Next]_vars

\* DebugSpec: the logger is configured at DEBUG, the adapter is instrumented
\* and uninstrumented at any time, and events of one execution of each task,
\* and events lacking any of their fields, arrive in any order
SmallPresent == {<<"T1", "id1">>, <<"T2", "id1">>}
AllLacking == Lacking \cup {<<None, None>>}

DebugNext ==
    \/ Instrument
    \/ Uninstrument
    \/ TaskPrerun(SmallPresent \cup AllLacking)
    \/ TaskPostrun(SmallPresent \cup AllLacking)
    \/ BeforeTaskPublish(SmallPresent \cup AllLacking)
    \/ AfterTaskPublish(SmallPresent \cup AllLacking)
    \/ TaskFailure(With(SmallPresent \cup AllLacking, {"ValueError"}))
    \/ TaskRetry(With(SmallPresent \cup AllLacking, Reasons \cup {None}))

DebugSpec == Constructed({}, "DEBUG") /\ [][DebugNext]_vars

\* ------------------------------- ConcSpec: the handlers, one statement a step
\* The host runs one execution per worker thread and sends an execution's
\* signals on its thread: th1 runs (T1, id1) and publishes (T1, id2), th2 runs
\* (T1, id2) and publishes (T1, id1), so that handlers in flight at the same
\* time always have distinct keys.
RunPayload(t) == IF t = "th1" THEN <<"T1", "id1">> ELSE <<"T1", "id2">>
PublishPayload(t) == IF t = "th1" THEN <<"T1", "id2">> ELSE <<"T1", "id1">>

\* the signals the host sends on thread t: th1's execution fails, th2's is
\* retried
SignalsOn(t) ==
    {"task_prerun", "task_postrun", "before_task_publish", "after_task_publish"}
        \cup (IF t = "th1" THEN {"task_failure"} ELSE {"task_retry"})

PublishHandlers == {"before_task_publish", "after_task_publish"}
OpeningHandlers == {"task_prerun", "before_task_publish"}

\* the table key of the handler call in frame f
FrameKey(f) == <<f.task, f.task_id, f.handler \in PublishHandlers>>

\* what the handler's payload carries besides task and task_id
ExtraOf(h) ==
    CASE h = "task_failure" -> Exceptions \cup {None}
      [] h = "task_retry" -> Reasons
      [] OTHER -> {None}

Goto(t, label) == pc' = [pc EXCEPT ![t] = label]
Return(t) == pc' = [pc EXCEPT ![t] = "idle"] /\ frame' = [frame EXCEPT ![t] = NoFrame]

\* the signal is sent on thread t: the handler is entered with its payload
\* (a handler that starts a span is entered only while the span bound allows)
C_Begin(t, h) ==
    /\ pc[t] = "idle"
    /\ h \in connected
    /\ h \in OpeningHandlers =>
         Len(spans) + Cardinality({u \in Threads : pc[u] = "start_span"}) < MaxSpans
    /\ \E x \in ExtraOf(h) :
         LET p == IF h \in PublishHandlers THEN PublishPayload(t) ELSE RunPayload(t) IN
         frame' = [frame EXCEPT ![t] =
                     [handler |-> h, task |-> p[1], task_id |-> p[2],
                      span |-> 0, arg |-> x]]
    /\ Goto(t, IF h \in OpeningHandlers THEN "start_span" ELSE "retrieve")
    /\ UNCHANGED <<connected, spans, table, current, level, log>>

\* tracer.start_span(...), and for a publish span its attributes (115, 156-162)
C_StartSpan(t) ==
    /\ pc[t] = "start_span"
    /\ LET f == frame[t] IN
       spans' = Append(spans,
            IF f.handler = "task_prerun"
            THEN StartSpan(TaskName(f.task), "CONSUMER", FrameKey(f), 0)
            ELSE PublishAttributes(
                    StartSpan(TaskName(f.task), "PRODUCER", FrameKey(f), 0),
                    f.task, f.task_id, {"hostname"}))
    /\ frame' = [frame EXCEPT ![t].span = Len(spans) + 1]
    /\ Goto(t, "enter")
    /\ UNCHANGED <<connected, table, current, level, log>>

\* activation = tracer.use_span(span, end_on_exit=True); activation.__enter__()
C_Enter(t) ==
    /\ pc[t] = "enter"
    /\ spans' = [spans EXCEPT ![frame[t].span].token = current[t]]
    /\ current' = [current EXCEPT ![t] = frame[t].span]
    /\ Goto(t, "attach")
    /\ UNCHANGED <<connected, table, level, log, frame>>

\* utils.attach_span(task, task_id, (span, activation)[, is_publish=True])
C_Attach(t) ==
    /\ pc[t] = "attach"
    /\ LET f == frame[t] IN
       table' = attach_span(table, f.task, f.task_id, f.span,
                            f.handler \in PublishHandlers)
    /\ Return(t)
    /\ UNCHANGED <<connected, spans, current, level, log>>

\* utils.retrieve_span(task, task_id[, is_publish=True]) and the test for None
C_Retrieve(t) ==
    /\ pc[t] = "retrieve"
    /\ LET f == frame[t]
           s == retrieve_span(table, f.task, f.task_id, f.handler \in PublishHandlers)
       IN IF s = 0
          THEN /\ Return(t)
               /\ IF f.handler \in {"task_postrun", "after_task_publish"}
                  THEN Emit({WarnNoSpan}) ELSE UNCHANGED log
          ELSE /\ frame' = [frame EXCEPT ![t].span = s]
               /\ Goto(t, CASE f.handler = "task_postrun" -> "set_attributes"
                            [] f.handler = "after_task_publish" -> "exit"
                            [] f.handler = "task_failure" -> "set_status"
                            [] OTHER -> "set_retry_reason")
               /\ UNCHANGED log
    /\ UNCHANGED <<connected, spans, table, current, level>>

\* the set_attribute calls of _trace_postrun (138-141)
C_SetAttributes(t) ==
    /\ pc[t] = "set_attributes"
    /\ spans' = [spans EXCEPT ![frame[t].span] =
                    PostrunAttributes(@, frame[t].task, {"hostname"}, {"hostname"})]
    /\ Goto(t, "exit")
    /\ UNCHANGED <<connected, table, current, level, log, frame>>

\* activation.__exit__(None, None, None)
C_Exit(t) ==
    /\ pc[t] = "exit"
    /\ ActivationExit(t, frame[t].span)
    /\ Goto(t, "detach")
    /\ UNCHANGED <<connected, table, level, log, frame>>

\* (mutant) the whole side table of the task is dropped
C_Detach_WholeTask(t) ==
    /\ pc[t] = "detach"
    /\ table' = [k \in Keys |-> IF k[1] = frame[t].task THEN 0 ELSE table[k]]
    /\ Return(t)
    /\ UNCHANGED <<connected, spans, current, level, log>>

\* (mutant) the entry is left in the table after the span was ended
C_Detach_Forgotten(t) ==
    /\ pc[t] = "detach"
    /\ Return(t)
    /\ UNCHANGED <<connected, spans, table, current, level, log>>

\* utils.detach_span(task, task_id[, is_publish=True])
C_Detach(t) ==
    /\ pc[t] = "detach"
    /\ LET f == frame[t] IN
       table' = detach_span(table, f.task, f.task_id, f.handler \in PublishHandlers)
    /\ Return(t)
    /\ UNCHANGED <<connected, spans, current, level, log>>

\* the rest of _trace_failure (198-209)
C_SetStatus(t) ==
    /\ pc[t] = "set_status"
    /\ LET f == frame[t] IN
       IF f.arg = None \/ AllowListed(f.task, f.arg)
       THEN UNCHANGED spans
       ELSE spans' = [spans EXCEPT ![f.span] = SpanSetStatus(@, ErrorStatus(f.arg))]
    /\ Return(t)
    /\ UNCHANGED <<connected, table, current, level, log>>

\* the rest of _trace_retry (224-227)
C_SetRetryReason(t) ==
    /\ pc[t] = "set_retry_reason"
    /\ spans' = [spans EXCEPT ![frame[t].span] =
                    SpanSetAttribute(@, TASK_RETRY_REASON_KEY, PyStr(frame[t].arg))]
    /\ Return(t)
    /\ UNCHANGED <<connected, table, current, level, log>>

ConcNext ==
    \E t \in Threads :
        \/ \E h \in SignalsOn(t) : C_Begin(t, h)
        \/ C_StartSpan(t)
        \/ C_Enter(t)
        \/ C_Attach(t)
        \/ C_Retrieve(t)
        \/ C_SetAttributes(t)
        \/ C_Exit(t)
        \/ C_Detach(t)
        \/ C_SetStatus(t)
        \/ C_SetRetryReason(t)

\* the adapter has been instrumented before the workers start
ConcSpec == Constructed(AdapterSignals, "WARNING") /\ [][ConcNext]_vars

\* ------------------------------------------------- vocabulary of the claims
SpanIds == 1..Len(spans)
IsOpen(i) == ~spans[i].ended
KeyOf(i) == spans[i].opened_for
RunKey(task, task_id) == <<task, task_id, FALSE>>
PublishKey(task, task_id) == <<task, task_id, TRUE>>

\* the spans opened for a key, and those of them still open
OpenedFor(k) == {i \in SpanIds : KeyOf(i) = k}
OpenFor(k) == {i \in OpenedFor(k) : IsOpen(i)}

\* a step in which the connected handler of a signal runs with that payload
PrerunStep(task, task_id) ==
    "task_prerun" \in connected /\ _trace_prerun(task, task_id)
PostrunStep(task, task_id) ==
    /\ "task_postrun" \in connected
    /\ \E kwargs \in Contexts, request \in Contexts :
            _trace_postrun(task, task_id, kwargs, request)
BeforePublishStep(task, task_id) ==
    /\ "before_task_publish" \in connected
    /\ \E kwargs \in Contexts : _trace_before_publish(task, task_id, kwargs)
AfterPublishStep(task, task_id) ==
    "after_task_publish" \in connected /\ _trace_after_publish(task, task_id)
FailureStep(task, task_id, einfo) ==
    "task_failure" \in connected /\ _trace_failure(task, task_id, einfo)
RetryStep(task, task_id, reason) ==
    "task_retry" \in connected /\ _trace_retry(task, task_id, reason)

\* a span that is open before the step and ended after it
Closes(i) == IsOpen(i) /\ spans'[i].ended

\* ------------------------------------------------------------------ C1
\* C1: a run span opened by task_prerun for (task, task_id) is closed exactly
\* once, by the task_postrun for the same (task, task_id): only that event
\* closes it, that event does close it, and once ended it is never touched
\* again (a second task_postrun closes nothing).
C1_RunSpanClosedOnceByPostrun ==
    [][\A i \in SpanIds :
          KeyOf(i)[3] = FALSE =>
            /\ Closes(i) => PostrunStep(KeyOf(i)[1], KeyOf(i)[2])
            /\ (IsOpen(i) /\ PostrunStep(KeyOf(i)[1], KeyOf(i)[2]))
                    => spans'[i].ended
            /\ spans[i].ended => spans'[i] = spans[i]]_vars

\* ------------------------------------------------------------------ C2
\* C2: a publish span opened by before_task_publish for (task, task_id) is
\* closed exactly once, by the after_task_publish for the same (task,
\* task_id); a repeated after_task_publish closes nothing further.
C2_PublishSpanClosedOnceByAfterPublish ==
    [][\A i \in SpanIds :
          KeyOf(i)[3] = TRUE =>
            /\ Closes(i) => AfterPublishStep(KeyOf(i)[1], KeyOf(i)[2])
            /\ (IsOpen(i) /\ AfterPublishStep(KeyOf(i)[1], KeyOf(i)[2]))
                    => spans'[i].ended
            /\ spans[i].ended => spans'[i] = spans[i]]_vars

\* ------------------------------------------------------------------ C3
\* C3: when the task_postrun of a started execution arrives, exactly one run
\* span has been opened for the execution and not yet closed, and the
\* task_postrun closes it: after it no run span of the execution is open.
C3_OneSpanOpenedOneClosed ==
    [][\A p \in Present :
          (PostrunStep(p[1], p[2]) /\ OpenFor(RunKey(p[1], p[2])) # {})
            => /\ Cardinality(OpenFor(RunKey(p[1], p[2]))) = 1
               /\ \A i \in OpenFor(RunKey(p[1], p[2])) : spans'[i].ended]_vars

\* ------------------------------------------------------------------ C4
\* the exception is an instance of a type of the task's declared allow-list
InThrows(task, exc) ==
    HasThrows(task) /\ \E c \in TaskThrows(task) : c \in Bases(exc)

\* C4: a task_failure carrying exception info, for a key whose run span is
\* open, sets the span's status to UNKNOWN with the exception info as
\* description, unless the exception is an instance of a type of the task's
\* throws allow-list, and then leaves the status unchanged.
C4_FailureMarksErrorUnlessAllowListed ==
    [][\A p \in Present, e \in Exceptions :
          LET s == table[RunKey(p[1], p[2])] IN
          (s # 0 /\ IsOpen(s) /\ FailureStep(p[1], p[2], e)) =>
             IF InThrows(p[1], e)
             THEN spans'[s].status = spans[s].status
             ELSE spans'[s].status =
                    [code |-> "UNKNOWN",
                     description |-> "ExceptionInfo(" \o e \o ")"]]_vars

\* a failure outside the allow-list has marked the open run span of T1, whose
\* allow-list is not empty
C4_Witness ==
    \E i \in SpanIds :
        /\ KeyOf(i) = RunKey("T1", "id1") /\ IsOpen(i) /\ table[KeyOf(i)] = i
        /\ spans[i].status = [code |-> "UNKNOWN",
                              description |-> "ExceptionInfo(ValueError)"]

\* ------------------------------------------------------------------ C5
\* C5: a task_retry with a reason, for a key whose run span is open, sets
\* celery.retry.reason on that span to str(reason) and changes nothing else:
\* the span is not ended, the table is unchanged; a span so annotated is
\* ended by no step but a task_postrun of its own key.
C5_RetryAnnotatesWithoutClosing ==
    [][/\ \A p \in Present, r \in Reasons :
            LET s == table[RunKey(p[1], p[2])] IN
            (s # 0 /\ IsOpen(s) /\ RetryStep(p[1], p[2], r)) =>
                /\ spans'[s] = [spans[s] EXCEPT
                        !.attributes[TASK_RETRY_REASON_KEY] = "timeout"]
                /\ ~spans'[s].ended
                /\ table' = table
                /\ \A i \in SpanIds \ {s} : spans'[i] = spans[i]
       /\ \A i \in SpanIds :
            (spans[i].attributes[TASK_RETRY_REASON_KEY] # None /\ Closes(i))
                => PostrunStep(KeyOf(i)[1], KeyOf(i)[2])]_vars

\* a retry has annotated a run span that is still open and in the table
C5_Witness ==
    \E i \in SpanIds :
        /\ spans[i].attributes[TASK_RETRY_REASON_KEY] = "timeout"
        /\ IsOpen(i) /\ table[KeyOf(i)] = i

\* ------------------------------------------------------------------ C7
\* C7: task_failure only annotates: it ends no span, changes no table entry
\* and no current span, so the span is still open after it (a step that
\* changes the table, a current span, the number of spans or whether a span
\* is ended is not a task_failure step); the matching task_postrun then ends
\* the span with the error status preserved.
C7_FailureOnlyAnnotates ==
    [][/\ (\/ table' # table
            \/ current' # current
            \/ Len(spans') # Len(spans)
            \/ \E i \in SpanIds : spans'[i].ended # spans[i].ended)
          => \A p \in Present, e \in Exceptions \cup {None} :
                ~FailureStep(p[1], p[2], e)
       /\ \A p \in Present :
            LET s == table[RunKey(p[1], p[2])] IN
              (s # 0 /\ spans[s].status.code = "UNKNOWN"
                    /\ PostrunStep(p[1], p[2])) =>
                /\ spans'[s].ended
                /\ spans'[s].status = spans[s].status]_vars

\* a run span marked by a failure has been ended by its task_postrun
C7_Witness ==
    \E i \in SpanIds :
        /\ KeyOf(i)[3] = FALSE /\ spans[i].ended
        /\ spans[i].status.code = "UNKNOWN"
        /\ spans[i].attributes[TASK_TAG_KEY] = TASK_RUN

\* ------------------------------------------------------------------ C8
\* the step touches no table entry but k's and no span opened for another
\* key, and it ends the span stored for k and removes k's entry
ClosesOnly(k) ==
    /\ \A k2 \in Keys \ {k} : table'[k2] = table[k2]
    /\ \A i \in SpanIds : KeyOf(i) # k => spans'[i] = spans[i]
    /\ table[k] # 0 => (spans'[table[k]].ended /\ table'[k] = 0)

\* C8: the table is keyed by (task, task_id, direction): every entry holds a
\* span opened for its own key, after_task_publish ends and removes only the
\* publish span of its (task, task_id) and task_postrun only the run span
\* (a step that does otherwise is not a step of that handler).
C8_DirectionsAreIndependent ==
    [][/\ \A k \in Keys : table[k] # 0 => KeyOf(table[k]) = k
       /\ \A p \in Present :
            /\ ~ClosesOnly(PublishKey(p[1], p[2]))
                    => ~AfterPublishStep(p[1], p[2])
            /\ ~ClosesOnly(RunKey(p[1], p[2]))
                    => ~PostrunStep(p[1], p[2])]_vars

\* for the same task and id: the publish span has been closed and removed
\* while the run span is still open and stored
C8_Witness ==
    \E i, j \in SpanIds :
        /\ KeyOf(i) = PublishKey("T1", "id1") /\ spans[i].ended
        /\ table[PublishKey("T1", "id1")] = 0
        /\ KeyOf(j) = RunKey("T1", "id1") /\ IsOpen(j)
        /\ table[RunKey("T1", "id1")] = j

\* ------------------------------------------------------------------ C6
\* a step of one of the six handlers on a payload that lacks the task or the
\* task id or, for task_retry, the reason
LackingStep ==
    \/ \E p \in AllLacking :
        \/ PrerunStep(p[1], p[2])
        \/ PostrunStep(p[1], p[2])
        \/ BeforePublishStep(p[1], p[2])
        \/ AfterPublishStep(p[1], p[2])
        \/ \E e \in Exceptions \cup {None} : FailureStep(p[1], p[2], e)
        \/ \E r \in Reasons \cup {None} : RetryStep(p[1], p[2], r)
    \/ \E p \in SmallPresent : RetryStep(p[1], p[2], None)

NothingOpenedOrClosed ==
    spans' = spans /\ table' = table /\ current' = current

C10_InstrumentThenUninstrument ==
    [][/\ connected \in {{}, AdapterSignals}
       /\ connected' \in {{}, AdapterSignals}
       /\ Instrument => connected' = AdapterSignals
       /\ Uninstrument => connected' = {}
       /\ connected = {} =>
            (connected' = AdapterSignals
                /\ UNCHANGED <<spans, table, current, log>>)]_vars

\* instrument, a task_prerun, then uninstrument: no handler is connected
\* while a span is still open and stored
C10_Witness ==
    /\ connected = {}
    /\ \E k \in Keys : table[k] # 0 /\ IsOpen(table[k])

\* ------------------------------------------------------------------ C9
\* a handler call for key k is in flight on some thread
InFlight(k) == \E t \in Threads : pc[t] # "idle" /\ FrameKey(frame[t]) = k

Latest(S) == CHOOSE i \in S : \A j \in S : j <= i

\* the entry of a key with no handler in flight: the span its last start
\* handler stored, still open, or none once its end handler has removed it
EntryIntact(k) ==
    IF table[k] # 0
    THEN table[k] = Latest(OpenedFor(k)) /\ IsOpen(table[k])
    ELSE OpenedFor(k) = {} \/ spans[Latest(OpenedFor(k))].ended

\* C9: with handlers of distinct keys interleaved statement by statement, a
\* step of a handler for key k changes no table entry but k's, changes no
\* span opened for another key and opens spans for k only; only the attach
\* and detach statements change the table; the entry a start
\* handler inserts is there when it returns and the entry an end handler
\* removes is gone, its span ended, when it returns; and the entry of every
\* key with no handler in flight is intact (no insert or remove was lost).
C9_PerKeyLifecycleUnderInterleaving ==
    [][/\ \A k \in Keys : ~InFlight(k) => EntryIntact(k)
       /\ \A t \in Threads :
            pc'[t] # pc[t] =>
              LET k == IF pc[t] = "idle" THEN FrameKey(frame'[t])
                       ELSE FrameKey(frame[t])
              IN
              /\ \A k2 \in Keys \ {k} : table'[k2] = table[k2]
              /\ \A i \in SpanIds : KeyOf(i) # k => spans'[i] = spans[i]
              /\ \A i \in (1..Len(spans')) \ SpanIds : spans'[i].opened_for = k
              /\ pc[t] \notin {"attach", "detach"} => table' = table
              /\ pc[t] = "attach" =>
                    /\ table'[k] = frame[t].span
                    /\ ~spans'[frame[t].span].ended
              /\ pc[t] = "detach" =>
                    /\ table'[k] = 0
                    /\ spans'[frame[t].span].ended]_vars

\* th1 is about to remove the entry of the run span it has ended while th2,
\* which has started and entered a span of another key, is about to insert it
C9_Witness ==
    /\ pc["th1"] = "detach" /\ frame["th1"].handler = "task_postrun"
    /\ pc["th2"] = "attach" /\ frame["th2"].handler = "task_prerun"
    /\ table[RunKey("T1", "id1")] = frame["th1"].span
    /\ table[RunKey("T1", "id2")] = 0

\* ------------------------------------------------------------------ C11
\* a step of task_failure or task_retry that carries every field
FailureOrRetryStep(task, task_id) ==
    \/ FailureStep(task, task_id, "ValueError")
    \/ \E r \in Reasons : RetryStep(task, task_id, r)

\* C11 as claimed: a handler that looks up the table and finds no span stored
\* for the event's key logs and returns: it closes nothing, annotates
\* nothing, creates no span and leaves the table unchanged (a step that logs
\* nothing, or changes a span, the table or a current span, is not a step of
\* such a handler).
C11_MissingSpanLogsAndReturns ==
    [][\A p \in SmallPresent :
        /\ (table[RunKey(p[1], p[2])] = 0
                /\ ~(log' # {} /\ NothingOpenedOrClosed))
             => (~PostrunStep(p[1], p[2]) /\ ~FailureOrRetryStep(p[1], p[2]))
        /\ (table[PublishKey(p[1], p[2])] = 0
                /\ ~(log' # {} /\ NothingOpenedOrClosed))
             => ~AfterPublishStep(p[1], p[2])]_vars

\* C11 as amended: when no span is stored for the event's key, task_postrun
\* and after_task_publish log the warning and return, task_failure and
\* task_retry return without logging; none of them closes or annotates a
\* span, creates a span or changes the table.
C11_MissingSpanReturns ==
    [][\A p \in SmallPresent :
        /\ (table[RunKey(p[1], p[2])] = 0
                /\ ~(WarnNoSpan \in log' /\ NothingOpenedOrClosed))
             => ~PostrunStep(p[1], p[2])
        /\ (table[RunKey(p[1], p[2])] = 0
                /\ ~(log' = {} /\ NothingOpenedOrClosed))
             => ~FailureOrRetryStep(p[1], p[2])
        /\ (table[PublishKey(p[1], p[2])] = 0
                /\ ~(WarnNoSpan \in log' /\ NothingOpenedOrClosed))
             => ~AfterPublishStep(p[1], p[2])]_vars

\* an end event has arrived after the span of its key was closed: the warning
\* is in the log, the span is ended as it was and the table is empty
C11_Witness ==
    /\ connected = AdapterSignals /\ WarnNoSpan \in log
    /\ Len(spans) = 1 /\ spans[1].ended
    /\ spans[1].attributes[TASK_RETRY_REASON_KEY] = None
    /\ spans[1].status = StatusOK
    /\ \A k \in Keys : table[k] = 0

\* ------------------------------------------------------------------ C12
\* C12: the attributes of a span match the event that produced it: a run
\* span is named after the task, has kind CONSUMER and, once ended, carries
\* celery.action = "run" and celery.task_name = the task's name; a publish
\* span is named after the task, has kind PRODUCER and, from the moment it is
\* opened, carries celery.action = "apply_async", messaging.message_id = the
\* task id and celery.task_name = the task's name.
C12_AttributesMatchEvent ==
    \A i \in SpanIds :
        LET k == KeyOf(i)
            a == spans[i].attributes
        IN
        /\ spans[i].name = TaskName(k[1])
        /\ IF k[3]
           THEN /\ spans[i].kind = "PRODUCER"
                /\ a[TASK_TAG_KEY] = TASK_APPLY_ASYNC
                /\ a[MESSAGE_ID_ATTRIBUTE_NAME] = k[2]
                /\ a[TASK_NAME_KEY] = TaskName(k[1])
           ELSE /\ spans[i].kind = "CONSUMER"
                /\ spans[i].ended =>
                        /\ a[TASK_TAG_KEY] = TASK_RUN
                        /\ a[TASK_NAME_KEY] = TaskName(k[1])

\* a run span of tasks.mul has been closed while a publish span of tasks.add
\* is open
C12_Witness ==
    \E i, j \in SpanIds :
        /\ KeyOf(i) = RunKey("T2", "id1") /\ spans[i].ended
        /\ spans[i].attributes[TASK_NAME_KEY] = "tasks.mul"
        /\ KeyOf(j) = PublishKey("T1", "id2") /\ IsOpen(j)
        /\ spans[j].attributes[MESSAGE_ID_ATTRIBUTE_NAME] = "id2"

\* ------------------------------------------------------------------ C13
\* the statements that write an attribute or a status to the retrieved span
WritingStatements == {"set_attributes", "set_status", "set_retry_reason"}

\* the last span opened for k has been ended: k's end event has been handled
\* and no start event of k since
LastEnded(k) == OpenedFor(k) # {} /\ spans[Latest(OpenedFor(k))].ended

\* C13: no attribute or status is written to a span after it has been ended:
\* an ended span never changes and every writing statement finds its span
\* open; task_postrun sets the attributes, then ends the span, then removes
\* its entry; and a task_failure or task_retry that arrives after the
\* matching task_postrun finds no entry and returns without changing a span.
C13_NoWriteAfterEnd ==
    [][/\ \A i \in SpanIds : spans[i].ended => spans'[i] = spans[i]
       /\ \A t \in Threads :
            pc'[t] # pc[t] =>
              LET f == frame[t]
                  k == FrameKey(f)
              IN
              /\ pc[t] \in WritingStatements => IsOpen(f.span)
              /\ pc[t] = "set_attributes" =>
                    /\ pc'[t] = "exit"
                    /\ ~spans'[f.span].ended /\ table'[k] = f.span
              /\ (pc[t] = "exit" /\ f.handler = "task_postrun") =>
                    /\ pc'[t] = "detach"
                    /\ spans[f.span].attributes[TASK_TAG_KEY] = TASK_RUN
                    /\ spans'[f.span].ended /\ table'[k] = f.span
              /\ (pc[t] = "retrieve" /\ LastEnded(k)
                    /\ f.handler \in {"task_failure", "task_retry"}) =>
                    /\ table[k] = 0
                    /\ pc'[t] = "idle" /\ spans' = spans]_vars

\* a task_failure has arrived on th1 after the task_postrun that ended the
\* run span of (T1, id1), marked by an earlier failure, and is about to look
\* the key up
C13_Witness ==
    /\ pc["th1"] = "retrieve" /\ frame["th1"].handler = "task_failure"
    /\ frame["th1"].arg = "ValueError"
    /\ LastEnded(RunKey("T1", "id1"))
    /\ \E i \in SpanIds :
            /\ KeyOf(i) = RunKey("T1", "id1") /\ spans[i].ended
            /\ spans[i].status.code = "UNKNOWN"

\* ------------------------------------------------------------------ C14
\* the spans stored in the association table
Stored == {table[k] : k \in {key \in Keys : table[key] # 0}}

\* C14: in every reachable state the spans opened and not yet ended are
\* exactly the spans stored in the table, one per key: no open span is
\* without a table entry that can close it, also after a start event was
\* delivered twice for a key, and the table holds no ended span.
C14_OpenSpansAreStored ==
    /\ {i \in SpanIds : IsOpen(i)} = Stored
    /\ \A k \in Keys : table[k] # 0 => KeyOf(table[k]) = k

\* ------------------------------------------------------------------ C15
\* C15: the current span of every execution context is none or a span that
\* is still open, also when the open/close pairs of two keys are interleaved
\* rather than nested, so that after all spans are closed no ended span is
\* current.
C15_CurrentSpanIsOpen ==
    \A t \in Threads : current[t] # 0 => IsOpen(current[t])

====
